---- MODULE Spec2Model ----
(***************************************************************************)
(* A model of fastd's configuration lexer, src/src/lex.c.                  *)
(*                                                                         *)
(* The state is one lexer (struct fastd_lex), the FILE it reads, and the   *)
(* caller's yylval / yylloc; the only operation after construction is the  *)
(* token pull fastd_lex().  Every C function of lex.c is an operator of    *)
(* the same name that maps an environment record e (file, lex, yylloc,     *)
(* yylval and the return value r of the call) to the environment after     *)
(* the call.                                                               *)
(*                                                                         *)
(* Bytes are their ASCII codes.  The window lex->buffer is char[1024] in   *)
(* the source; the model keeps every index computation of the source and   *)
(* scales the array to BufSize cells so that refills, compaction and       *)
(* stale bytes behind lex->end happen on short inputs.  The cell after     *)
(* the array (C index BufSize) models the memory that follows the buffer:  *)
(* the source reads and writes it when start + tok_len = sizeof(buffer).   *)
(***************************************************************************)
EXTENDS Integers, Sequences, FiniteSets, TLC

VARIABLES
    file,    \* the FILE the lexer reads: [data, pos, fails, error]
    lex,     \* struct fastd_lex: [needspace, start, end, tok_len, buffer]
    yylloc,  \* the caller's YYLTYPE
    yylval,  \* the caller's YYSTYPE: [member, value]
    ret,     \* what the last fastd_lex returned ("none" before the first)
    pulls,   \* calls of fastd_lex so far
    hist,    \* the tokens returned so far, up to the first 0 or -1
    twin,    \* a second lexer, on the input with a comment replaced
    whole,   \* a third lexer, whose window holds the whole input at once
    oob,     \* whether the last pull read or wrote a byte outside the window
    tc       \* the input case this behaviour runs (never changes)

vars == <<file, lex, yylloc, yylval, ret, pulls, hist, twin, whole, oob, tc>>

(***************************************************************************)
(* Bounds of the model.                                                    *)
(***************************************************************************)
\* cells of lex->buffer (1024 in the source, scaled)
BufSize == 22
\* initial size of parse_string's output buffer (1024 in the source, scaled)
StrBufInit == 4
\* pulls a caller makes on one lexer
MaxPulls == 4

(***************************************************************************)
(* Bytes.                                                                  *)
(***************************************************************************)
Printable ==
    << " ", "!", "dq", "#", "$", "%", "&", "'", "(", ")", "*", "+", ",", "-",
       ".", "/", "0", "1", "2", "3", "4", "5", "6", "7", "8", "9", ":", ";",
       "<", "=", ">", "?", "@", "A", "B", "C", "D", "E", "F", "G", "H", "I",
       "J", "K", "L", "M", "N", "O", "P", "Q", "R", "S", "T", "U", "V", "W",
       "X", "Y", "Z", "[", "\\", "]", "^", "_", "bq", "a", "b", "c", "d", "e",
       "f", "g", "h", "i", "j", "k", "l", "m", "n", "o", "p", "q", "r", "s",
       "t", "u", "v", "w", "x", "y", "z", "{", "|", "}", "~" >>

\* the ASCII code of a printable character; "dq" and "bq" stand for the double quote and the backquote
Ord(c) == 31 + (CHOOSE i \in 1..Len(Printable) : Printable[i] = c)
\* the character of a printable ASCII code
Chr(b) == Printable[b - 31]
\* the bytes of a text given as a tuple of characters
B(t) == [i \in 1..Len(t) |-> Ord(t[i])]

NUL == 0
TAB == 9
LF == 10
VT == 11
FF == 12
CR == 13

Min(a, b) == IF a < b THEN a ELSE b

\* the return values of fastd_lex that are not token codes
RET_END == "0"
RET_ERROR == "-1"

(***************************************************************************)
(* The stream: fread and ferror on lex->file.  A file is its content, the  *)
(* read position, whether the read that runs past the content fails        *)
(* (a read error) instead of reporting end of file, and the error flag.    *)
(***************************************************************************)
fread(f, n) ==
    LET l == Min(n, Len(f.data) - f.pos)
    IN  [file |-> [f EXCEPT !.pos = @ + l,
                            !.error = @ \/ (l < n /\ f.fails)],
         bytes |-> SubSeq(f.data, f.pos + 1, f.pos + l),
         l |-> l]

ferror(f) == f.error

(***************************************************************************)
(* Stream buffer.                                                          *)
(***************************************************************************)
\* memmove(buffer, buffer + start, n): cell i of the model is C index i - 1
memmove(buffer, start, n) ==
    SubSeq(buffer, start + 1, start + n) \o SubSeq(buffer, n + 1, Len(buffer))

\* sizeof(lex->buffer): the cells of the array, the one after it not counted
sizeof_buffer(l) == Len(l.buffer) - 1

advance(e) ==
    LET l0 == e.lex
        l1 == IF l0.start > 0
              THEN [l0 EXCEPT !.buffer = memmove(l0.buffer, l0.start, l0.end - l0.start),
                              !.end = l0.end - l0.start,
                              !.start = 0]
              ELSE l0
    IN  IF l1.end = sizeof_buffer(l1)
        THEN [e EXCEPT !.lex = l1, !.r = FALSE]
        ELSE LET rd == fread(e.file, sizeof_buffer(l1) - l1.end)
             IN  [e EXCEPT
                    !.lex = [l1 EXCEPT
                               !.buffer = SubSeq(l1.buffer, 1, l1.end) \o rd.bytes
                                          \o SubSeq(l1.buffer, l1.end + rd.l + 1,
                                                    Len(l1.buffer)),
                               !.end = l1.end + rd.l],
                    !.file = rd.file,
                    !.r = (rd.l # 0)]

current(e) == e.lex.buffer[e.lex.start + e.lex.tok_len + 1]

\* whether the index current() reads, start + tok_len, is inside the window
InWindow(e) == e.lex.start + e.lex.tok_len < e.lex.end

\* the lexer after an access to the byte at start + tok_len: oob records an
\* access outside the window
look(e) == [e EXCEPT !.oob = @ \/ ~InWindow(e)]

\* the lexer after current() has been evaluated if c holds
look_if(c, e) == IF c THEN look(e) ELSE e

\* the number of bytes of s before its first NUL among the first n, and n
\* (or all of s) when there is none
strnlen(s, n) ==
    LET m == Min(n, Len(s))
        nuls == {i \in 1..m : s[i] = NUL}
    IN  IF nuls = {} THEN m ELSE (CHOOSE i \in nuls : \A k \in nuls : i <= k) - 1

\* strndup(s, n): the bytes of s before the first NUL, n at most
strndup(s, n) == SubSeq(s, 1, strnlen(s, n))

get_token(e) ==
    strndup(SubSeq(e.lex.buffer, e.lex.start + 1, Len(e.lex.buffer)), e.lex.tok_len)

next(e, move) ==
    IF e.lex.start + e.lex.tok_len >= e.lex.end
    THEN [e EXCEPT !.r = FALSE]
    ELSE LET loc == IF current(e) = LF
                    THEN [e.yylloc EXCEPT !.last_column = 0, !.last_line = @ + 1]
                    ELSE [e.yylloc EXCEPT !.last_column = @ + 1]
             l1 == IF move
                   THEN [e.lex EXCEPT !.start = @ + 1]
                   ELSE [e.lex EXCEPT !.tok_len = @ + 1]
             e1 == [look(e) EXCEPT !.yylloc = loc, !.lex = l1]
         IN  IF l1.start + l1.tok_len >= l1.end
             THEN advance(e1)
             ELSE [e1 EXCEPT !.r = TRUE]

\* consume that never clears needspace
consume_sticky(e, needspace) ==
    [e EXCEPT !.lex = [e.lex EXCEPT !.start = @ + e.lex.tok_len,
                                    !.tok_len = 0,
                                    !.needspace = @ \/ needspace]]

\* consume that moves start one byte past the lookahead
consume_past(e, needspace) ==
    [e EXCEPT !.lex = [e.lex EXCEPT !.start = @ + e.lex.tok_len + 1,
                                    !.tok_len = 0,
                                    !.needspace = needspace]]

consume(e, needspace) ==
    [e EXCEPT !.lex = [e.lex EXCEPT !.start = @ + e.lex.tok_len,
                                    !.tok_len = 0,
                                    !.needspace = needspace]]

(***************************************************************************)
(* Errors.  yylval is a union: the model keeps the member written last.    *)
(***************************************************************************)
SetVal(e, member, value) ==
    [e EXCEPT !.yylval = [member |-> member, value |-> value]]

syntax_error(e) == [SetVal(e, "error", "syntax error") EXCEPT !.r = RET_ERROR]

io_error(e) == [SetVal(e, "error", "I/O error") EXCEPT !.r = RET_ERROR]

end(e) == IF ferror(e.file) THEN io_error(e) ELSE [e EXCEPT !.r = RET_END]

(***************************************************************************)
(* Loops.  A while loop of the source is its body, an operator X_step on   *)
(* the loop's state st = [loop, e, done, locals]: e is the environment,    *)
(* done whether the loop was left (by break, return or its condition).     *)
(* Loop(st, n) runs the body until done, n times at most, by halves; Fuel  *)
(* bounds the turns of any loop of the lexer, each of which passes a byte. *)
(***************************************************************************)
RECURSIVE Loop(_, _)

Fuel(e) == (e.lex.end - e.lex.start) + (Len(e.file.data) - e.file.pos) + 1

(***************************************************************************)
(* Comments.                                                               *)
(***************************************************************************)
unterminated_comment(e) ==
    IF ferror(e.file) THEN io_error(e)
    ELSE [SetVal(e, "error", "unterminated block comment") EXCEPT !.r = RET_ERROR]

\* one turn of the while loop of consume_comment, prev being its local and
\* e1 what next() has made of the lexer; when next() fails the loop is left
\* for the code after it
consume_comment_turn(st, e1) ==
    IF ~e1.r
    THEN [st EXCEPT !.e = unterminated_comment(e1), !.done = TRUE]
    ELSE IF st.prev = Ord("*") /\ current(e1) = Ord("/")
    THEN [st EXCEPT !.e = [consume(next(look(e1), TRUE), FALSE) EXCEPT !.r = RET_END],
                    !.done = TRUE]
    ELSE [st EXCEPT !.e = look(e1), !.prev = current(e1)]

consume_comment_step(st) == consume_comment_turn(st, next(st.e, TRUE))

consume_comment(e) ==
    Loop([loop |-> "consume_comment", e |-> e, done |-> FALSE, prev |-> NUL],
         Fuel(e)).e

\* one turn of the while loop of the line comment in fastd_lex
line_comment_turn(st, e1) ==
    [st EXCEPT !.e = look_if(e1.r, e1), !.done = ~e1.r \/ current(e1) = LF]

line_comment_step(st) == line_comment_turn(st, next(st.e, TRUE))

\* the line comment of fastd_lex: the loop, next() and consume()
line_comment(e) ==
    consume(next(Loop([loop |-> "line_comment", e |-> e, done |-> FALSE],
                      Fuel(e)).e, TRUE), FALSE)

(***************************************************************************)
(* String literals.  buf is parse_string's malloc'ed output buffer: len    *)
(* cells, of which the first pos are written.                              *)
(***************************************************************************)
\* unterminated_string without the test of the stream's error indicator
unterminated_string_noferror(e) ==
    [SetVal(e, "error", "unterminated string") EXCEPT !.r = RET_ERROR]

unterminated_string(e) ==
    IF ferror(e.file) THEN io_error(e)
    ELSE [SetVal(e, "error", "unterminated string") EXCEPT !.r = RET_ERROR]

\* n cells of unset memory, read as NUL
cells(n) == SubSeq([i \in 1..n |-> NUL], 1, n)

malloc(len) == [len |-> len, pos |-> 0, mem |-> cells(len)]

realloc(buf, len) ==
    [buf EXCEPT !.len = len, !.mem = buf.mem \o cells(len - buf.len)]

\* store without the growth of the buffer: a byte that finds it full is lost
store_nogrow(buf, cur) ==
    IF buf.pos >= buf.len THEN buf
    ELSE [buf EXCEPT !.mem[buf.pos + 1] = cur, !.pos = @ + 1]

\* if (pos >= len) { len *= 2; buf = realloc(buf, len); }  buf[pos++] = cur;
store(buf, cur) ==
    LET b1 == IF buf.pos >= buf.len THEN realloc(buf, buf.len * 2) ELSE buf
    IN  [b1 EXCEPT !.mem[b1.pos + 1] = cur, !.pos = @ + 1]

\* the string payload: the first len bytes of str
fastd_string_stack_dupn(str, len) == SubSeq(str, 1, len)

\* parse_string_escape that copies an escaped newline like any other byte
parse_string_escape_keepnl(st, e2) ==
    IF ~e2.r
    THEN [st EXCEPT !.e = unterminated_string(e2), !.done = TRUE, !.ret = TRUE]
    ELSE [st EXCEPT !.e = look(e2), !.buf = store(st.buf, current(e2))]

\* parse_string's loop body after a backslash, e2 being what the second
\* next() has made of the lexer
parse_string_escape(st, e2) ==
    IF ~e2.r
    THEN [st EXCEPT !.e = unterminated_string(e2), !.done = TRUE, !.ret = TRUE]
    ELSE IF current(e2) = LF THEN [st EXCEPT !.e = look(e2)]
    ELSE [st EXCEPT !.e = look(e2), !.buf = store(st.buf, current(e2))]

\* one turn of the while (true) loop of parse_string, buf being its local
\* and e1 what next() has made of the lexer; a return leaves the loop with
\* ret set, the break without
parse_string_turn(st, e1) ==
    IF ~e1.r
    THEN [st EXCEPT !.e = unterminated_string(e1), !.done = TRUE, !.ret = TRUE]
    ELSE IF current(e1) = Ord("dq") THEN [st EXCEPT !.e = look(e1), !.done = TRUE]
    ELSE IF current(e1) = Ord("\\") THEN parse_string_escape(st, next(look(e1), TRUE))
    ELSE [st EXCEPT !.e = look(e1), !.buf = store(st.buf, current(e1))]

parse_string_step(st) == parse_string_turn(st, next(st.e, TRUE))

\* parse_string once its loop is left
parse_string_end(st) ==
    IF st.ret THEN st.e
    ELSE [consume(next(SetVal(st.e, "str",
                              fastd_string_stack_dupn(st.buf.mem, st.buf.pos)),
                       TRUE), TRUE)
            EXCEPT !.r = "TOK_STRING"]

parse_string(e) ==
    IF e.lex.needspace THEN syntax_error(e)
    ELSE parse_string_end(Loop([loop |-> "parse_string", e |-> e, done |-> FALSE,
                                ret |-> FALSE, buf |-> malloc(StrBufInit)],
                               Fuel(e)))

(***************************************************************************)
(* inet_pton of the C library, as the lexer calls it.  Both return         *)
(* [ok, addr]: ok is the call's result and addr the bytes stored.          *)
(***************************************************************************)
IsDigit(c) == c >= Ord("0") /\ c <= Ord("9")

\* the value of a hexadecimal digit, -1 for any other byte
hex_digit_value(c) ==
    IF IsDigit(c) THEN c - Ord("0")
    ELSE IF c >= Ord("a") /\ c <= Ord("f") THEN c - Ord("a") + 10
    ELSE IF c >= Ord("A") /\ c <= Ord("F") THEN c - Ord("A") + 10
    ELSE -1

\* the scan of inet_pton4: done are the octets completed, cur the octet in
\* progress, saw_digit whether cur has a digit
RECURSIVE inet_pton4_loop(_, _, _, _)
inet_pton4_loop(src, done, cur, saw_digit) ==
    IF src = <<>>
    THEN IF Len(done) + (IF saw_digit THEN 1 ELSE 0) < 4
         THEN [ok |-> FALSE, addr |-> <<>>]
         ELSE [ok |-> TRUE, addr |-> Append(done, cur)]
    ELSE LET ch == Head(src)
         IN  IF IsDigit(ch)
             THEN LET new == cur * 10 + (ch - Ord("0"))
                  IN  IF (saw_digit /\ cur = 0) \/ new > 255
                         \/ (~saw_digit /\ Len(done) + 1 > 4)
                      THEN [ok |-> FALSE, addr |-> <<>>]
                      ELSE inet_pton4_loop(Tail(src), done, new, TRUE)
             ELSE IF ch = Ord(".") /\ saw_digit
             THEN IF Len(done) + 1 = 4
                  THEN [ok |-> FALSE, addr |-> <<>>]
                  ELSE inet_pton4_loop(Tail(src), Append(done, cur), 0, FALSE)
             ELSE [ok |-> FALSE, addr |-> <<>>]

inet_pton4(src) == inet_pton4_loop(src, <<>>, 0, FALSE)

\* the end of inet_pton6: tp are the bytes written, colonp the number of
\* bytes written before the "::" (-1: none)
inet_pton6_finish(tp, colonp) ==
    IF colonp # -1
    THEN IF Len(tp) >= 16 THEN [ok |-> FALSE, addr |-> <<>>]
         ELSE [ok |-> TRUE,
               addr |-> SubSeq(tp, 1, colonp)
                        \o [i \in 1..(16 - Len(tp)) |-> 0]
                        \o SubSeq(tp, colonp + 1, Len(tp))]
    ELSE IF Len(tp) # 16 THEN [ok |-> FALSE, addr |-> <<>>]
    ELSE [ok |-> TRUE, addr |-> tp]

RECURSIVE inet_pton6_loop(_, _, _, _, _, _)
inet_pton6_loop(src, curtok, tp, colonp, val, xdigits_seen) ==
    IF src = <<>>
    THEN IF xdigits_seen > 0
         THEN IF Len(tp) + 2 > 16 THEN [ok |-> FALSE, addr |-> <<>>]
              ELSE inet_pton6_finish(tp \o <<val \div 256, val % 256>>, colonp)
         ELSE inet_pton6_finish(tp, colonp)
    ELSE LET ch == Head(src)
             rest == Tail(src)
             digit == hex_digit_value(ch)
         IN  IF digit >= 0
             THEN IF xdigits_seen = 4 THEN [ok |-> FALSE, addr |-> <<>>]
                  ELSE inet_pton6_loop(rest, curtok, tp, colonp,
                                       val * 16 + digit, xdigits_seen + 1)
             ELSE IF ch = Ord(":")
             THEN IF xdigits_seen = 0
                  THEN IF colonp # -1 THEN [ok |-> FALSE, addr |-> <<>>]
                       ELSE inet_pton6_loop(rest, rest, tp, Len(tp), val, 0)
                  ELSE IF rest = <<>> \/ Len(tp) + 2 > 16
                  THEN [ok |-> FALSE, addr |-> <<>>]
                  ELSE inet_pton6_loop(rest, rest,
                                       tp \o <<val \div 256, val % 256>>,
                                       colonp, 0, 0)
             ELSE IF ch = Ord(".") /\ Len(tp) + 4 <= 16 /\ inet_pton4(curtok).ok
             THEN inet_pton6_finish(tp \o inet_pton4(curtok).addr, colonp)
             ELSE [ok |-> FALSE, addr |-> <<>>]

inet_pton6(src) ==
    IF src = <<>> THEN [ok |-> FALSE, addr |-> <<>>]
    ELSE IF Head(src) = Ord(":")
    THEN IF Len(src) < 2 \/ src[2] # Ord(":")
         THEN [ok |-> FALSE, addr |-> <<>>]
         ELSE inet_pton6_loop(Tail(src), Tail(src), <<>>, -1, 0, 0)
    ELSE inet_pton6_loop(src, src, <<>>, -1, 0, 0)

\* the C string at s: its bytes before the first NUL
cstring(s) == strndup(s, Len(s))

(***************************************************************************)
(* strtoull(token, &endptr, 10) of the C library on 64-bit unsigned long   *)
(* long.  A value is its four 16-bit limbs, least significant first.       *)
(***************************************************************************)
Limb == 65536

ULLONG_MAX == <<Limb - 1, Limb - 1, Limb - 1, Limb - 1>>

\* v * 10 + d as [value, overflow]
MulAdd(v, d) ==
    LET t1 == v[1] * 10 + d
        t2 == v[2] * 10 + t1 \div Limb
        t3 == v[3] * 10 + t2 \div Limb
        t4 == v[4] * 10 + t3 \div Limb
    IN  [value |-> <<t1 % Limb, t2 % Limb, t3 % Limb, t4 % Limb>>,
         overflow |-> t4 \div Limb > 0]

\* 2^64 - v for v > 0, and 0 for 0
Negate(v) ==
    LET c1 == (Limb - 1 - v[1]) + 1
        c2 == (Limb - 1 - v[2]) + c1 \div Limb
        c3 == (Limb - 1 - v[3]) + c2 \div Limb
        c4 == (Limb - 1 - v[4]) + c3 \div Limb
    IN  <<c1 % Limb, c2 % Limb, c3 % Limb, c4 % Limb>>

isspace(c) == c \in {Ord(" "), TAB, LF, VT, FF, CR}

\* the index of the first byte of s from index i on that is no space
skip_space(s, i) ==
    LET stop == {k \in i..Len(s) : ~isspace(s[k])}
    IN  IF stop = {} THEN Len(s) + 1 ELSE CHOOSE k \in stop : \A m \in stop : k <= m

\* the index after the run of digits of s that starts at index i
digits_end(s, i) ==
    LET stop == {k \in i..Len(s) : ~IsDigit(s[k])}
    IN  IF stop = {} THEN Len(s) + 1 ELSE CHOOSE k \in stop : \A m \in stop : k <= m

\* the digits s[lo..hi] accumulated onto acc = [value, overflow], by halves;
\* once the value has overflowed it no longer matters
RECURSIVE accumulate(_, _, _, _)
accumulate(s, lo, hi, acc) ==
    IF acc.overflow \/ lo > hi THEN acc
    ELSE IF lo = hi THEN MulAdd(acc.value, s[lo] - Ord("0"))
    ELSE accumulate(s, (lo + hi) \div 2 + 1, hi,
                    accumulate(s, lo, (lo + hi) \div 2, acc))

\* [value, endptr] for the digits s[i1..j-1] accumulated as a, after a minus
\* sign if neg: endptr is the number of bytes of s before *endptr
strtoull_result(neg, i1, j, a) ==
    IF j = i1 THEN [value |-> <<0, 0, 0, 0>>, endptr |-> 0]
    ELSE IF a.overflow THEN [value |-> ULLONG_MAX, endptr |-> j - 1]
    ELSE [value |-> IF neg THEN Negate(a.value) ELSE a.value, endptr |-> j - 1]

strtoull_digits(s, neg, i1, j) ==
    strtoull_result(neg, i1, j,
                    accumulate(s, i1, j - 1,
                               [value |-> <<0, 0, 0, 0>>, overflow |-> FALSE]))

\* strtoull from the first byte that is no white space
strtoull_sign(s, i0) ==
    LET i1 == IF i0 <= Len(s) /\ s[i0] \in {Ord("-"), Ord("+")} THEN i0 + 1 ELSE i0
    IN  strtoull_digits(s, i0 <= Len(s) /\ s[i0] = Ord("-"), i1, digits_end(s, i1))

strtoull(s) == strtoull_sign(s, skip_space(s, 1))

(***************************************************************************)
(* Address and number literals.                                            *)
(***************************************************************************)
invalid_address(e) ==
    [SetVal(e, "error", "invalid address") EXCEPT !.r = RET_ERROR]

\* the bytes the IPv6 scanner extends the lookahead over
ipv6_char(cur) == IsDigit(cur) \/ cur = Ord(":")

\* one turn of the while loop of parse_ipv6_address
parse_ipv6_turn(st, e1) ==
    [st EXCEPT !.e = look_if(e1.r, e1), !.done = ~e1.r \/ ~ipv6_char(current(e1))]

parse_ipv6_step(st) == parse_ipv6_turn(st, next(st.e, FALSE))

\* parse_ipv6_address once the bracket is overwritten: a is inet_pton's
\* result
parse_ipv6_convert(e2, a) ==
    IF ~a.ok THEN invalid_address(e2)
    ELSE [consume(next(SetVal(e2, "addr6", a.addr), TRUE), TRUE)
            EXCEPT !.r = "TOK_ADDR6"]

\* parse_ipv6_address with the NUL written at the cursor
parse_ipv6_terminated(e2) ==
    parse_ipv6_convert(e2, inet_pton6(cstring(SubSeq(e2.lex.buffer,
                                                     e2.lex.start + 2,
                                                     Len(e2.lex.buffer)))))

\* parse_ipv6_address once its loop is left
parse_ipv6_end(e1) ==
    IF current(e1) # Ord("]") THEN invalid_address(look(e1))
    ELSE parse_ipv6_terminated(
             [look(e1) EXCEPT !.lex.buffer[e1.lex.start + e1.lex.tok_len + 1] = NUL])

parse_ipv6_address(e) ==
    IF e.lex.needspace THEN syntax_error(e)
    ELSE parse_ipv6_end(Loop([loop |-> "parse_ipv6", e |-> e, done |-> FALSE],
                             Fuel(e)).e)

\* ipv4_char with the dot left out
ipv4_char_digit(cur) == IsDigit(cur)

\* the bytes the IPv4 scanner extends the lookahead over
ipv4_char(cur) == IsDigit(cur) \/ cur = Ord(".")

\* one turn of the while loop of parse_ipv4_address
parse_ipv4_turn(st, e1) ==
    [st EXCEPT !.e = look_if(e1.r, e1), !.done = ~e1.r \/ ~ipv4_char(current(e1))]

parse_ipv4_step(st) == parse_ipv4_turn(st, next(st.e, FALSE))

\* parse_ipv4_address once its loop is left: a is inet_pton's result
parse_ipv4_end(e1, a) ==
    IF ~a.ok THEN invalid_address(e1)
    ELSE [SetVal(e1, "addr4", a.addr) EXCEPT !.r = "TOK_ADDR4"]

parse_ipv4_token(e1) == parse_ipv4_end(e1, inet_pton4(get_token(e1)))

parse_ipv4_address(e) ==
    IF e.lex.needspace THEN syntax_error(e)
    ELSE parse_ipv4_token(Loop([loop |-> "parse_ipv4", e |-> e, done |-> FALSE],
                               Fuel(e)).e)

\* parse_number after strtoull: n is its [value, endptr]
parse_uint_end(e, n) ==
    IF n.endptr # Len(get_token(e))
    THEN [SetVal(e, "error", "invalid integer constant") EXCEPT !.r = RET_ERROR]
    ELSE [SetVal(e, "uint64", n.value) EXCEPT !.r = "TOK_UINT"]

\* parse_uint storing the value in 32 bits
parse_uint_32(e) ==
    LET n == strtoull(get_token(e))
    IN  parse_uint_end(e, [n EXCEPT !.value = <<n.value[1], n.value[2], 0, 0>>])

\* what parse_number does once its scan has stopped on a byte that is no dot
parse_uint(e) == parse_uint_end(e, strtoull(get_token(e)))

\* one turn of the while loop of parse_number: the return from inside it
\* leaves it with ret set (a dot: the token is an IPv4 address), the break
\* and the loop's condition without
parse_number_turn(st, e1) ==
    IF ~e1.r THEN [st EXCEPT !.e = e1, !.done = TRUE]
    ELSE IF current(e1) = Ord(".")
    THEN [st EXCEPT !.e = look(e1), !.done = TRUE, !.ret = TRUE]
    ELSE IF IsDigit(current(e1)) THEN [st EXCEPT !.e = look(e1)]
    ELSE [st EXCEPT !.e = look(e1), !.done = TRUE]

parse_number_step(st) == parse_number_turn(st, next(st.e, FALSE))

\* parse_number once its loop is left
parse_number_end(st) ==
    IF st.ret THEN parse_ipv4_address(st.e) ELSE parse_uint(st.e)

parse_number(e) ==
    IF e.lex.needspace THEN syntax_error(e)
    ELSE parse_number_end(Loop([loop |-> "parse_number", e |-> e, done |-> FALSE,
                                ret |-> FALSE], Fuel(e)))

(***************************************************************************)
(* Keywords.                                                               *)
(***************************************************************************)
keywords ==
    <<
       [keyword |-> B(<<"a", "d", "d", "r", "e", "s", "s", "e", "s">>),
        token |-> "TOK_ADDRESSES"],
       [keyword |-> B(<<"a", "n", "y">>),
        token |-> "TOK_ANY"],
       [keyword |-> B(<<"a", "s">>),
        token |-> "TOK_AS"],
       [keyword |-> B(<<"a", "u", "t", "o">>),
        token |-> "TOK_AUTO"],
       [keyword |-> B(<<"b", "i", "n", "d">>),
        token |-> "TOK_BIND"],
       [keyword |-> B(<<"c", "a", "p", "a", "b", "i", "l", "i", "t", "i", "e", "s">>),
        token |-> "TOK_CAPABILITIES"],
       [keyword |-> B(<<"c", "r", "y", "p", "t", "o">>),
        token |-> "TOK_CRYPTO"],
       [keyword |-> B(<<"d", "e", "b", "u", "g">>),
        token |-> "TOK_DEBUG"],
       [keyword |-> B(<<"d", "e", "f", "a", "u", "l", "t">>),
        token |-> "TOK_DEFAULT"],
       [keyword |-> B(<<"d", "i", "s", "e", "s", "t", "a", "b", "l", "i", "s", "h">>),
        token |-> "TOK_DISESTABLISH"],
       [keyword |-> B(<<"d", "o", "w", "n">>),
        token |-> "TOK_DOWN"],
       [keyword |-> B(<<"d", "r", "o", "p">>),
        token |-> "TOK_DROP"],
       [keyword |-> B(<<"e", "a", "r", "l", "y">>),
        token |-> "TOK_EARLY"],
       [keyword |-> B(<<"e", "r", "r", "o", "r">>),
        token |-> "TOK_ERROR"],
       [keyword |-> B(<<"e", "s", "t", "a", "b", "l", "i", "s", "h">>),
        token |-> "TOK_ESTABLISH"],
       [keyword |-> B(<<"f", "a", "t", "a", "l">>),
        token |-> "TOK_FATAL"],
       [keyword |-> B(<<"f", "l", "o", "a", "t">>),
        token |-> "TOK_FLOAT"],
       [keyword |-> B(<<"f", "o", "r", "w", "a", "r", "d">>),
        token |-> "TOK_FORWARD"],
       [keyword |-> B(<<"f", "r", "o", "m">>),
        token |-> "TOK_FROM"],
       [keyword |-> B(<<"g", "r", "o", "u", "p">>),
        token |-> "TOK_GROUP"],
       [keyword |-> B(<<"h", "i", "d", "e">>),
        token |-> "TOK_HIDE"],
       [keyword |-> B(<<"i", "n", "c", "l", "u", "d", "e">>),
        token |-> "TOK_INCLUDE"],
       [keyword |-> B(<<"i", "n", "f", "o">>),
        token |-> "TOK_INFO"],
       [keyword |-> B(<<"i", "n", "t", "e", "r", "f", "a", "c", "e">>),
        token |-> "TOK_INTERFACE"],
       [keyword |-> B(<<"i", "p">>),
        token |-> "TOK_IP"],
       [keyword |-> B(<<"i", "p", "v", "4">>),
        token |-> "TOK_IPV4"],
       [keyword |-> B(<<"i", "p", "v", "6">>),
        token |-> "TOK_IPV6"],
       [keyword |-> B(<<"k", "e", "y">>),
        token |-> "TOK_KEY"],
       [keyword |-> B(<<"l", "e", "v", "e", "l">>),
        token |-> "TOK_LEVEL"],
       [keyword |-> B(<<"l", "i", "m", "i", "t">>),
        token |-> "TOK_LIMIT"],
       [keyword |-> B(<<"l", "o", "g">>),
        token |-> "TOK_LOG"],
       [keyword |-> B(<<"m", "a", "c">>),
        token |-> "TOK_MAC"],
       [keyword |-> B(<<"m", "e", "t", "h", "o", "d">>),
        token |-> "TOK_METHOD"],
       [keyword |-> B(<<"m", "o", "d", "e">>),
        token |-> "TOK_MODE"],
       [keyword |-> B(<<"m", "t", "u">>),
        token |-> "TOK_MTU"],
       [keyword |-> B(<<"n", "o">>),
        token |-> "TOK_NO"],
       [keyword |-> B(<<"o", "n">>),
        token |-> "TOK_ON"],
       [keyword |-> B(<<"p", "e", "e", "r">>),
        token |-> "TOK_PEER"],
       [keyword |-> B(<<"p", "e", "e", "r", "s">>),
        token |-> "TOK_PEERS"],
       [keyword |-> B(<<"p", "m", "t", "u">>),
        token |-> "TOK_PMTU"],
       [keyword |-> B(<<"p", "o", "r", "t">>),
        token |-> "TOK_PORT"],
       [keyword |-> B(<<"p", "o", "s", "t", "-", "d", "o", "w", "n">>),
        token |-> "TOK_POST_DOWN"],
       [keyword |-> B(<<"p", "r", "e", "-", "u", "p">>),
        token |-> "TOK_PRE_UP"],
       [keyword |-> B(<<"p", "r", "o", "t", "o", "c", "o", "l">>),
        token |-> "TOK_PROTOCOL"],
       [keyword |-> B(<<"r", "e", "m", "o", "t", "e">>),
        token |-> "TOK_REMOTE"],
       [keyword |-> B(<<"s", "e", "c", "r", "e", "t">>),
        token |-> "TOK_SECRET"],
       [keyword |-> B(<<"s", "t", "d", "e", "r", "r">>),
        token |-> "TOK_STDERR"],
       [keyword |-> B(<<"s", "y", "s", "l", "o", "g">>),
        token |-> "TOK_SYSLOG"],
       [keyword |-> B(<<"t", "a", "p">>),
        token |-> "TOK_TAP"],
       [keyword |-> B(<<"t", "o">>),
        token |-> "TOK_TO"],
       [keyword |-> B(<<"t", "u", "n">>),
        token |-> "TOK_TUN"],
       [keyword |-> B(<<"u", "p">>),
        token |-> "TOK_UP"],
       [keyword |-> B(<<"u", "s", "e">>),
        token |-> "TOK_USE"],
       [keyword |-> B(<<"u", "s", "e", "r">>),
        token |-> "TOK_USER"],
       [keyword |-> B(<<"v", "e", "r", "b", "o", "s", "e">>),
        token |-> "TOK_VERBOSE"],
       [keyword |-> B(<<"v", "e", "r", "i", "f", "y">>),
        token |-> "TOK_VERIFY"],
       [keyword |-> B(<<"w", "a", "r", "n">>),
        token |-> "TOK_WARN"],
       [keyword |-> B(<<"y", "e", "s">>),
        token |-> "TOK_YES"]
    >>

\* strcmp on byte strings: negative, zero or positive
RECURSIVE strcmp(_, _)
strcmp(a, b) ==
    IF a = <<>> /\ b = <<>> THEN 0
    ELSE IF a = <<>> THEN -1
    ELSE IF b = <<>> THEN 1
    ELSE IF Head(a) # Head(b) THEN Head(a) - Head(b)
    ELSE strcmp(Tail(a), Tail(b))

compare_keywords(k1, k2) == strcmp(k1.keyword, k2.keyword)

\* bsearch of the C library over base[l+1 .. u]: the index found, 0 for NULL
RECURSIVE bsearch_loop(_, _, _, _)
bsearch_loop(key, base, l, u) ==
    IF l >= u THEN 0
    ELSE LET idx == (l + u) \div 2
             cmp == compare_keywords(key, base[idx + 1])
         IN  IF cmp < 0 THEN bsearch_loop(key, base, l, idx)
             ELSE IF cmp > 0 THEN bsearch_loop(key, base, idx + 1, u)
             ELSE idx + 1

bsearch(key, base) == bsearch_loop(key, base, 0, Len(base))

\* keyword_char with the hyphen left out
keyword_char_nohyphen(cur) == (cur >= Ord("a") /\ cur <= Ord("z")) \/ IsDigit(cur)

\* the bytes the keyword scanner extends the lookahead over
keyword_char(cur) ==
    (cur >= Ord("a") /\ cur <= Ord("z")) \/ IsDigit(cur) \/ cur = Ord("-")

\* one turn of the while loop of parse_keyword
parse_keyword_turn(st, e1) ==
    [st EXCEPT !.e = look_if(e1.r, e1), !.done = ~e1.r \/ ~keyword_char(current(e1))]

parse_keyword_step(st) == parse_keyword_turn(st, next(st.e, FALSE))

\* parse_keyword after bsearch: found is the index of the entry found, 0
\* for NULL
parse_keyword_end(e1, found) ==
    IF found = 0 THEN syntax_error(e1)
    ELSE [consume(e1, TRUE) EXCEPT !.r = keywords[found].token]

parse_keyword_token(e1) ==
    parse_keyword_end(e1, bsearch([keyword |-> get_token(e1)], keywords))

parse_keyword(e) ==
    IF e.lex.needspace THEN syntax_error(e)
    ELSE parse_keyword_token(Loop([loop |-> "parse_keyword", e |-> e,
                                   done |-> FALSE], Fuel(e)).e)

(***************************************************************************)
(* The token pull.                                                         *)
(***************************************************************************)
\* the cases of the switch of fastd_lex that scan a token and return
fastd_lex_token(e0) ==
    LET c == current(e0)
    IN  CASE c = Ord("dq") -> parse_string(e0)
          [] c = Ord("[") -> parse_ipv6_address(e0)
          [] IsDigit(c) -> parse_number(e0)
          [] c >= Ord("a") /\ c <= Ord("z") -> parse_keyword(e0)
          [] OTHER -> syntax_error(e0)

\* case '/' after a block comment: e2 is what consume_comment has made of
\* the lexer, its result in e2.r
fastd_lex_comment(st, e2) ==
    [st EXCEPT !.e = e2, !.done = (e2.r # RET_END), !.ret = (e2.r # RET_END)]

\* case '/' of the switch, e1 being what next() has made of the lexer
fastd_lex_slash(st, e1) ==
    IF ~e1.r THEN [st EXCEPT !.e = syntax_error(e1), !.done = TRUE, !.ret = TRUE]
    ELSE IF current(e1) = Ord("*") THEN fastd_lex_comment(st, consume_comment(look(e1)))
    ELSE IF current(e1) # Ord("/")
    THEN [st EXCEPT !.e = syntax_error(look(e1)), !.done = TRUE, !.ret = TRUE]
    ELSE [st EXCEPT !.e = line_comment(look(e1))]

\* the switch of fastd_lex: a continue goes on, a return leaves the loop
\* with ret set; on a byte that starts a token the turn hands over to
\* fastd_lex_token (token set)
fastd_lex_switch(st, e0) ==
    LET c == current(e0)
    IN  IF c \in {Ord(" "), LF, TAB, CR}
        THEN [st EXCEPT !.e = consume(next(e0, TRUE), FALSE)]
        ELSE IF c \in {Ord(";"), Ord(":"), Ord("{"), Ord("}")}
        THEN [st EXCEPT !.e = [consume(next(e0, TRUE), FALSE) EXCEPT !.r = Chr(c)],
                        !.done = TRUE, !.ret = TRUE]
        ELSE IF c = Ord("/") THEN fastd_lex_slash(st, next(e0, TRUE))
        ELSE IF c = Ord("#") THEN [st EXCEPT !.e = line_comment(e0)]
        ELSE [st EXCEPT !.e = e0, !.done = TRUE, !.token = TRUE]

\* one turn of the while loop of fastd_lex; the loop's condition leaves it
\* with neither ret nor token set
fastd_lex_step(st) ==
    IF ~(st.e.lex.end > st.e.lex.start) THEN [st EXCEPT !.done = TRUE]
    ELSE fastd_lex_switch(st,
             [look(st.e) EXCEPT !.yylloc.first_line = st.e.yylloc.last_line,
                                !.yylloc.first_column = st.e.yylloc.last_column + 1])

\* fastd_lex once its loop is left
fastd_lex_end(st) ==
    IF st.token THEN fastd_lex_token(st.e)
    ELSE IF st.ret THEN st.e
    ELSE end(st.e)

fastd_lex(e) ==
    fastd_lex_end(Loop([loop |-> "fastd_lex", e |-> e, done |-> FALSE,
                        ret |-> FALSE, token |-> FALSE], Fuel(e)))

\* the body of the loop st is in
Body(st) ==
    CASE st.loop = "consume_comment" -> consume_comment_step(st)
      [] st.loop = "line_comment" -> line_comment_step(st)
      [] st.loop = "parse_string" -> parse_string_step(st)
      [] st.loop = "parse_ipv6" -> parse_ipv6_step(st)
      [] st.loop = "parse_ipv4" -> parse_ipv4_step(st)
      [] st.loop = "parse_number" -> parse_number_step(st)
      [] st.loop = "parse_keyword" -> parse_keyword_step(st)
      [] st.loop = "fastd_lex" -> fastd_lex_step(st)

Loop(st, n) ==
    IF st.done THEN st
    ELSE IF n <= 1 THEN Body(st)
    ELSE Loop(Loop(st, n \div 2), n - (n \div 2))

\* a calloc'ed struct fastd_lex with a buffer of size cells, bound to file;
\* after is the byte that follows the struct in memory
calloc(f, size, after) ==
    [file |-> f,
     lex |-> [needspace |-> FALSE, start |-> 0, end |-> 0, tok_len |-> 0,
              buffer |-> cells(size) \o <<after>>],
     yylloc |-> [first_line |-> 1, first_column |-> 0,
                 last_line |-> 1, last_column |-> 0],
     yylval |-> [member |-> "none", value |-> <<>>],
     oob |-> FALSE,
     r |-> FALSE]

\* calloc'ed lexer bound to file, then advance()
fastd_lex_init(f, after) == advance(calloc(f, BufSize, after))

(***************************************************************************)
(* Input cases.  A case is [class, text, at, kind, exp, alt]: the bytes    *)
(* of the file, the pull (1, 2, ...) that reaches the token the case is    *)
(* about, the token code and payload expected there, and for the comment   *)
(* cases the text with the comment replaced.                               *)
(***************************************************************************)
Case(class, text, at, kind, exp, alt) ==
    [class |-> class, text |-> text, at |-> at, kind |-> kind, exp |-> exp,
     alt |-> alt]

\* pat repeated and cut to n bytes
Rep(pat, n) == [i \in 1..n |-> pat[((i - 1) % Len(pat)) + 1]]

RECURSIVE Concat(_)
Concat(ss) == IF ss = <<>> THEN <<>> ELSE Head(ss) \o Concat(Tail(ss))

\* all sequences over S of length n, and of length n at most
RECURSIVE SeqsOfLen(_, _)
SeqsOfLen(S, n) ==
    IF n = 0 THEN {<<>>}
    ELSE {Append(t, x) : t \in SeqsOfLen(S, n - 1), x \in S}

SeqsUpTo(S, n) == UNION {SeqsOfLen(S, k) : k \in 0..n}

\* the decimal digits of a small natural number
RECURSIVE Dec(_)
Dec(n) == IF n < 10 THEN <<Ord("0") + n>> ELSE Append(Dec(n \div 10), Ord("0") + (n % 10))

\* v divided by ten: [q, r]
DivMod10(v) ==
    LET c4 == v[4]
        c3 == (c4 % 10) * Limb + v[3]
        c2 == (c3 % 10) * Limb + v[2]
        c1 == (c2 % 10) * Limb + v[1]
    IN  [q |-> <<c1 \div 10, c2 \div 10, c3 \div 10, c4 \div 10>>, r |-> c1 % 10]

\* the decimal text of a 64-bit value
RECURSIVE DecimalText(_)
DecimalText(v) ==
    LET d == DivMod10(v)
    IN  IF d.q = <<0, 0, 0, 0>> THEN <<Ord("0") + d.r>>
        ELSE Append(DecimalText(d.q), Ord("0") + d.r)

\* 10^19 = 0x8AC7230489E80000
TenTo19 == <<0, 35304, 8964, 35527>>

UintValues ==
    {<<a, b, c, d>> : a \in {0, 1, Limb - 1}, b \in {0, 1, Limb - 1},
                      c \in {0, 1, Limb - 1}, d \in {0, 1, Limb - 1}}
    \cup {<<k, 0, 0, 0>> : k \in {9, 10, 99, 100, 12345}}
    \cup {TenTo19}

UintCases ==
    {Case("uint", DecimalText(n), 1, "TOK_UINT", n, <<>>) : n \in UintValues}

\* s with every double quote and backslash escaped
RECURSIVE Escape(_)
Escape(s) ==
    IF s = <<>> THEN <<>>
    ELSE IF Len(s) = 1
    THEN (IF s[1] \in {Ord("dq"), Ord("\\")} THEN <<Ord("\\"), s[1]>> ELSE s)
    ELSE Escape(SubSeq(s, 1, Len(s) \div 2))
         \o Escape(SubSeq(s, Len(s) \div 2 + 1, Len(s)))

\* the longest short string tried with every content
MaxShort == 3

StringLengths ==
    ((BufSize - 3)..(BufSize + 1))
    \cup ((StrBufInit - 1)..(StrBufInit + 1)) \cup {2 * StrBufInit + 1}

StringValues ==
    SeqsUpTo({Ord("a"), Ord("dq"), Ord("\\"), LF}, MaxShort)
    \cup {Rep(p, n) : p \in {<<Ord("a")>>, <<Ord("a"), Ord("dq")>>,
                            <<Ord("\\"), Ord("n")>>, <<LF, Ord("]"), Ord("\\")>>},
                      n \in StringLengths}

StringCases ==
    {Case("string", <<Ord("dq")>> \o Escape(s) \o <<Ord("dq")>>, 1,
          "TOK_STRING", s, <<>>) : s \in StringValues}

\* a token as it is written and as it is returned: [text, kind, val]
Tok(text, kind, val) == [text |-> text, kind |-> kind, val |-> val]

Loopback == [i \in 1..16 |-> IF i = 16 THEN 1 ELSE 0]

\* one word-like token of each kind
WordTokens ==
    {Tok(B(<<"dq", "a", "dq">>), "TOK_STRING", <<Ord("a")>>),
     Tok(B(<<"1", "2">>), "TOK_UINT", <<12, 0, 0, 0>>),
     Tok(B(<<"1", ".", "2", ".", "3", ".", "4">>), "TOK_ADDR4", <<1, 2, 3, 4>>),
     Tok(B(<<"[", ":", ":", "1", "]">>), "TOK_ADDR6", Loopback),
     Tok(B(<<"y", "e", "s">>), "TOK_YES", <<>>)}

PunctTokens ==
    {Tok(<<Ord(c)>>, c, <<>>) : c \in {";", ":", "{", "}"}}

\* b written right after a is read as two tokens: the first byte of b
\* belongs to no token that a begins
Separable(a, b) ==
    CASE a.kind \in {"TOK_STRING", "TOK_ADDR6"} -> TRUE
      [] a.kind \in {"TOK_UINT", "TOK_ADDR4"} ->
             b.kind \in {"TOK_STRING", "TOK_ADDR6", "TOK_YES"}
      [] OTHER -> b.kind \in {"TOK_STRING", "TOK_ADDR6"}

\* two word-like tokens with nothing between them
PairCases ==
    {Case("pair", p[1].text \o p[2].text, 1, p[1].kind, p[1].val, <<>>) :
        p \in {q \in WordTokens \X WordTokens : Separable(q[1], q[2])}}

\* what precedes the token a case is about: [text, toks], toks being the
\* tokens in text
Prefixes ==
    {[text |-> <<>>, toks |-> 0],
     [text |-> <<LF>>, toks |-> 0],
     [text |-> B(<<"y", "e", "s", " ">>), toks |-> 1],
     [text |-> B(<<";">>), toks |-> 1],
     [text |-> B(<<"#", "]", "]", "]", "]">>) \o <<LF>>, toks |-> 0],
     [text |-> B(<<"/", "*", "9", "9", "*", "/">>), toks |-> 0]}

\* valid tokens and separators, the source ending after the last token or
\* after the white space that follows it
StreamCases ==
    {Case("stream", p.text \o t.text \o post, p.toks + 1, t.kind, t.val, <<>>) :
        p \in Prefixes, t \in WordTokens \cup PunctTokens,
        post \in {<<>>, <<Ord(" ")>>, <<LF>>}}

\* the keywords, and words that are none: short ones, and the keywords cut
\* or extended by a byte
KeywordTexts == {keywords[i].keyword : i \in 1..Len(keywords)}

KeywordCases ==
    {Case("keyword", keywords[i].keyword, 1, keywords[i].token, <<>>, <<>>) :
        i \in 1..Len(keywords)}

Words ==
    ({w \in SeqsUpTo({Ord(c) : c \in {"a", "n", "o", "y", "0", "-"}}, 2) :
         w # <<>> /\ w[1] \notin {Ord("0"), Ord("-")}}
     \cup {SubSeq(k, 1, Len(k) - 1) : k \in {x \in KeywordTexts : Len(x) > 1}}
     \cup {Append(k, c) : k \in KeywordTexts, c \in {Ord("a"), Ord("z"), Ord("0"), Ord("-")}})
    \ KeywordTexts

WordCases == {Case("word", w, 1, RET_ERROR, <<>>, <<>>) : w \in Words}

\* IPv6 addresses: [text, addr]
Ipv6Good ==
    {[text |-> B(<<":", ":", "1">>), addr |-> Loopback],
     [text |-> B(<<":", ":">>), addr |-> [i \in 1..16 |-> 0]],
     [text |-> B(<<"1", ":", ":">>), addr |-> [i \in 1..16 |-> IF i = 2 THEN 1 ELSE 0]],
     [text |-> B(<<"1", ":", "2", ":", "3", ":", "4", ":", "5", ":", "6", ":", "7",
                   ":", "8">>),
      addr |-> [i \in 1..16 |-> IF i % 2 = 0 THEN i \div 2 ELSE 0]],
     [text |-> B(<<"f", "e", "8", "0", ":", ":", "1">>),
      addr |-> [i \in 1..16 |-> CASE i = 1 -> 254 [] i = 2 -> 128 [] i = 16 -> 1
                                  [] OTHER -> 0]],
     [text |-> B(<<":", ":", "a">>), addr |-> [i \in 1..16 |-> IF i = 16 THEN 10 ELSE 0]]}

Ipv6Bad ==
    {B(<<":", ":", "g">>), B(<<"1", ":", "2">>), B(<<":", ":", ":">>),
     B(<<"1", "2", "3", "4", "5", ":", ":">>), B(<<"1", ":", ":", "2", ":", ":", "3">>),
     <<>>}

Ipv6Cases ==
    {Case("ipv6", B(<<"[">>) \o a.text \o B(<<"]">>), 1, "TOK_ADDR6", a.addr, <<>>) :
        a \in Ipv6Good}
    \cup {Case("ipv6bad", B(<<"[">>) \o t \o B(<<"]">>), 1, RET_ERROR, <<>>, <<>>) :
            t \in Ipv6Bad}

\* an IPv6 literal that is never closed, after a prefix; the source ends
\* after it or goes on with a byte that is no bracket
Ipv6OpenCases ==
    {Case("ipv6open", p.text \o B(<<"[">>) \o t \o post, p.toks + 1, RET_ERROR, <<>>,
          <<>>) :
        p \in Prefixes,
        t \in {B(<<":", ":", "1">>), B(<<":", ":">>), B(<<"1", ":", "2">>)},
        post \in {<<>>, <<Ord(" ")>>, <<Ord(";")>>, <<Ord("x")>>}}

\* the parts a digit-led run of digits and dots is made of, between its
\* dots: [text, value], and the most parts tried
Ipv4Parts ==
    {[text |-> <<>>, value |-> -1],
     [text |-> B(<<"1">>), value |-> 1],
     [text |-> B(<<"2", "5", "5">>), value |-> 255],
     [text |-> B(<<"2", "5", "6">>), value |-> 256]}

MaxParts == 5

RECURSIVE Join(_)
Join(ts) ==
    IF Len(ts) = 1 THEN ts[1] ELSE ts[1] \o <<Ord(".")>> \o Join(Tail(ts))

Ipv4Runs ==
    {ps \in UNION {SeqsOfLen(Ipv4Parts, n) : n \in 2..MaxParts} : ps[1].text # <<>>}

RunText(ps) == Join([i \in 1..Len(ps) |-> ps[i].text])

DottedQuad(ps) == Len(ps) = 4 /\ \A i \in 1..4 : ps[i].value \in 0..255

\* the runs that fit the window; alt is the run, which the text may go on
\* after
Ipv4Cases ==
    {LET run == RunText(ps)
     IN  IF DottedQuad(ps)
         THEN Case("ipv4", run \o post, 1, "TOK_ADDR4",
                   [i \in 1..4 |-> ps[i].value], run)
         ELSE Case("ipv4bad", run \o post, 1, RET_ERROR, <<>>, run) :
        ps \in {r \in Ipv4Runs : Len(RunText(r)) < BufSize},
        post \in {<<>>, <<Ord(";")>>}}

\* the lengths at which a literal or comment ends with the window, before
\* it and after it
WindowLengths == (BufSize - 3)..(BufSize + 1)

\* what a string literal that is never closed holds
OpenStringBodies ==
    {<<>>, B(<<"a">>), B(<<"a", "\\">>), B(<<"a", "\\", "dq">>), B(<<"a", "b">>) \o <<LF>>,
     B(<<"\\", "\\", "\\">>)}
    \cup {Rep(p, n) : p \in {B(<<"a">>), B(<<"\\", "dq">>)}, n \in WindowLengths}

OpenStringCases ==
    {Case("openstring", B(<<"dq">>) \o b, 1, RET_ERROR, "unterminated string", <<>>) :
        b \in OpenStringBodies}

\* what a block comment that is never closed holds
OpenCommentBodies ==
    {<<>>, B(<<"/">>), B(<<"*">>), B(<<"a", "*">>), B(<<"*", " ", "/">>),
     B(<<"*">>) \o <<LF>> \o B(<<"/">>)}
    \cup {Rep(p, n) : p \in {B(<<"a">>), B(<<"*", "a", "/">>)}, n \in WindowLengths}

OpenCommentCases ==
    {Case("opencomment", B(<<"/", "*">>) \o b, 1, RET_ERROR,
          "unterminated block comment", <<>>) : b \in OpenCommentBodies}

\* comments and what the text holds in their place: [text, alt]
Comments ==
    {[text |-> B(<<"#", "9">>) \o <<LF>>, alt |-> <<LF>>],
     [text |-> B(<<"/", "/", "*">>) \o <<LF>>, alt |-> <<LF>>],
     [text |-> B(<<"/", "*", "a", "*", "/">>), alt |-> B(<<" ">>)],
     [text |-> B(<<"/", "*", "/", "*", "*", "/">>), alt |-> B(<<" ">>)],
     [text |-> B(<<"/", "*", "]", "]", "]", "]", "*", "/">>), alt |-> B(<<" ">>)]}

\* a text with a comment in it, and the text with the comment replaced
CommentCases ==
    {Case("comment", pre \o c.text \o post, 1, "", <<>>, pre \o c.alt \o post) :
        pre \in {<<>>, B(<<"y", "e", "s">>), B(<<"dq", "a", "dq">>)},
        c \in Comments,
        post \in {<<>>} \cup {t.text : t \in WordTokens \cup PunctTokens}
                 \cup {B(<<"[", ":", ":", "1">>)}}
    \cup {Case("comment", B(<<"y", "e", "s">>) \o c.text, 1, "", <<>>,
               B(<<"y", "e", "s">>) \o <<LF>>) :
            c \in {[text |-> B(<<"#", "a">>)], [text |-> B(<<"/", "/">>)]}}

\* a slash that begins no comment
SlashCases ==
    {Case("slash", B(<<"/">>) \o post, 1, RET_ERROR, "syntax error", <<>>) :
        post \in {<<>>, B(<<" ">>), B(<<"x">>), B(<<";">>), B(<<"1">>), B(<<"#">>),
                  <<LF>>}}

\* texts made of pieces, a piece being a token or what separates tokens:
\* [text, tok, kind, val]
Sep(text) == [text |-> text, tok |-> FALSE, kind |-> "", val |-> <<>>]

Word(t) == [text |-> t.text, tok |-> TRUE, kind |-> t.kind, val |-> t.val]

PieceText(ps) == Concat([i \in 1..Len(ps) |-> ps[i].text])

\* the tokens among the first n pieces
TokensIn(ps, n) == Cardinality({i \in 1..n : ps[i].tok})

\* what clears needspace: white space and comments, and the punctuation
Blanks ==
    {<<Ord(" ")>>, <<TAB>>, <<CR>>, <<LF>>, B(<<"/", "*", "*", "/">>),
     B(<<"/", "*", "a", "*", "/">>), B(<<"#", "c">>) \o <<LF>>,
     B(<<"/", "/">>) \o <<LF>>}

Separators == {Sep(b) : b \in Blanks} \cup {Word(t) : t \in PunctTokens}

SecondTokens ==
    WordTokens
    \cup {Tok(B(<<"n", "o">>), "TOK_NO", <<>>),
          Tok(B(<<"1", "2", "3", "4">>), "TOK_UINT", <<1234, 0, 0, 0>>)}

\* two word-like tokens with one separator between them
SeparatedCases ==
    {Case("separated", a.text \o s.text \o b.text, IF s.tok THEN 3 ELSE 2,
          b.kind, b.val, <<>>) :
        a \in WordTokens, s \in Separators, b \in SecondTokens}

\* digit runs that fit the window and whose value exceeds 2^64 - 1
OverflowCases ==
    {Case("overflow", t, 1, RET_ERROR, "invalid integer constant", <<>>) :
        t \in {B(<<"1", "8", "4", "4", "6", "7", "4", "4", "0", "7", "3", "7", "0",
                   "9", "5", "5", "1", "6", "1", "6">>),
               Rep(B(<<"9">>), 20), Rep(B(<<"9">>), 21),
               B(<<"1">>) \o Rep(B(<<"0">>), 20),
               B(<<"0">>) \o Rep(B(<<"9">>), 20)}}

\* inputs longer than the window: padding that holds no word, then a token
\* that begins before the end of the first window, then the rest
Paddings ==
    {Rep(p, n) : p \in {<<Ord(" ")>>, <<LF>>}, n \in (BufSize - 7)..(BufSize + 1)}
    \cup {B(<<"#">>) \o Rep(B(<<"a">>), n) \o <<LF>> :
            n \in (BufSize - 9)..(BufSize - 1)}
    \cup {B(<<"/", "*">>) \o Rep(B(<<"a">>), n) \o B(<<"*", "/">>) :
            n \in (BufSize - 11)..(BufSize - 3)}

RefillCases ==
    {Case("refill", pad \o t.text \o post, 1, t.kind, t.val, <<>>) :
        pad \in Paddings, t \in SecondTokens \cup PunctTokens,
        post \in {<<>>, <<Ord(" ")>>,
                  B(<<";", "y", "e", "s", " ", "1", "2", " ", ";">>)}}

\* the line and the column of byte k of a text: the line grows by one per
\* newline before the byte, the column counts the bytes since the last one
LineOf(text, k) == 1 + Cardinality({i \in 1..(k - 1) : text[i] = LF})

ColumnOf(text, k) ==
    LET nls == {i \in 1..(k - 1) : text[i] = LF}
    IN  IF nls = {} THEN k ELSE k - (CHOOSE i \in nls : \A j \in nls : j <= i)

\* the span of the bytes first..last of a text: first line and column,
\* last line and column
Span(text, first, last) ==
    <<LineOf(text, first), ColumnOf(text, first),
      LineOf(text, last), ColumnOf(text, last)>>

\* the spans of the tokens among pieces, in the order of the text, four
\* numbers a token
RECURSIVE SpansFrom(_, _, _)
SpansFrom(ps, i, off) ==
    IF i > Len(ps) THEN <<>>
    ELSE IF ps[i].tok
    THEN Span(PieceText(ps), off + 1, off + Len(ps[i].text))
         \o SpansFrom(ps, i + 1, off + Len(ps[i].text))
    ELSE SpansFrom(ps, i + 1, off + Len(ps[i].text))

Spans(ps) == SpansFrom(ps, 1, 0)

\* a string literal over three lines
LongString ==
    Tok(B(<<"dq", "a", "\\">>) \o <<LF>> \o B(<<"b">>) \o <<LF>> \o B(<<"c", "dq">>),
        "TOK_STRING", B(<<"a", "b">>) \o <<LF>> \o B(<<"c">>))

TokenOf(text) == CHOOSE t \in WordTokens \cup PunctTokens : t.text = text

\* what a located token follows
Leads ==
    {<<>>,
     <<Sep(<<LF>>)>>,
     <<Sep(<<Ord(" "), LF, TAB>>)>>,
     <<Word(TokenOf(B(<<"y", "e", "s">>))), Sep(<<LF>>)>>,
     <<Word(TokenOf(B(<<"1", "2">>))), Sep(<<Ord(" ")>>)>>,
     <<Word(TokenOf(B(<<"1", "2">>))), Sep(<<LF>>)>>,
     <<Word(TokenOf(B(<<"1", ".", "2", ".", "3", ".", "4">>))), Sep(<<LF, Ord(" ")>>)>>,
     <<Sep(B(<<"#", "c">>) \o <<LF>>)>>,
     <<Sep(B(<<"/", "*">>) \o <<LF, LF>> \o B(<<"*", "/">>))>>,
     <<Word(LongString), Sep(<<Ord(" ")>>)>>,
     <<Word(TokenOf(B(<<";">>)))>>,
     <<Word(TokenOf(B(<<"1", "2">>))), Word(TokenOf(B(<<";">>)))>>}

\* exp is the span of the token the case is about, alt the spans of all
\* the tokens of the text
LocatedCase(ps, t) ==
    Case("located", PieceText(ps), TokensIn(ps, Len(ps)), t.kind,
         SubSeq(Spans(ps), 4 * TokensIn(ps, Len(ps)) - 3, 4 * TokensIn(ps, Len(ps))),
         Spans(ps))

LocatedCases ==
    {LocatedCase(lead \o <<Word(t)>> \o post, t) :
        lead \in Leads, t \in WordTokens \cup PunctTokens \cup {LongString},
        post \in {<<>>, <<Sep(<<Ord(" ")>>)>>, <<Sep(<<LF>>)>>}}

\* what is written between the quotes of a literal, decoded: a backslash
\* and a newline give nothing, a backslash and another byte that byte
RECURSIVE Decoded(_)
Decoded(raw) ==
    IF raw = <<>> THEN <<>>
    ELSE IF raw[1] # Ord("\\") THEN <<raw[1]>> \o Decoded(Tail(raw))
    ELSE IF raw[2] = LF THEN Decoded(Tail(Tail(raw)))
    ELSE <<raw[2]>> \o Decoded(Tail(Tail(raw)))

\* raw has no quote that is not escaped and no backslash without a byte
\* after it
RECURSIVE Literal(_)
Literal(raw) ==
    IF raw = <<>> THEN TRUE
    ELSE IF raw[1] = Ord("dq") THEN FALSE
    ELSE IF raw[1] # Ord("\\") THEN Literal(Tail(raw))
    ELSE Len(raw) >= 2 /\ Literal(Tail(Tail(raw)))

\* the longest literal tried with every content
MaxRaw == 4

RawBodies ==
    {r \in SeqsUpTo({Ord("a"), Ord("n"), Ord("dq"), Ord("\\"), LF}, MaxRaw) : Literal(r)}

EscapeCases ==
    {Case("escape", <<Ord("dq")>> \o r \o <<Ord("dq")>>, 1, "TOK_STRING",
          Decoded(r), r) : r \in RawBodies}

\* lookahead scans that the window is too small for: runs of digits, of
\* digits and dots and of letters as long as the window and longer
FullCases ==
    {Case("full", Rep(p, n) \o post, 1, "", <<>>, <<>>) :
        p \in {B(<<"1">>), B(<<"1", ".">>), B(<<"a">>)},
        n \in BufSize..(BufSize + 2),
        post \in {<<>>, B(<<" ", "y", "e", "s">>)}}

Cases ==
    UintCases \cup StringCases \cup PairCases \cup StreamCases
    \cup KeywordCases \cup WordCases \cup Ipv6Cases \cup Ipv6OpenCases
    \cup Ipv4Cases \cup OpenStringCases \cup OpenCommentCases
    \cup CommentCases \cup SlashCases
    \cup SeparatedCases \cup OverflowCases \cup RefillCases \cup LocatedCases
    \cup EscapeCases \cup FullCases

(***************************************************************************)
(* The specification: a lexer is constructed on a file, and the caller     *)
(* pulls tokens.                                                           *)
(***************************************************************************)
\* the byte that follows lex->buffer in memory matters only to an input
\* that can fill the window
OobBytes(text) ==
    IF Len(text) >= BufSize THEN {NUL, Ord("9"), Ord("]"), Ord(" ")} ELSE {NUL}

IsToken(r) == r \notin {"none", RET_END, RET_ERROR}

HasPayload(r) == r \in {"TOK_STRING", "TOK_UINT", "TOK_ADDR4", "TOK_ADDR6"}

\* the returned tokens with their payloads, up to the first 0 or -1
Record(h, e) ==
    IF h # <<>> /\ ~IsToken(h[Len(h)].ret) THEN h
    ELSE Append(h, [ret |-> e.r,
                    val |-> IF HasPayload(e.r) THEN e.yylval.value ELSE <<>>])

Env(f, l, loc, val) ==
    [file |-> f, lex |-> l, yylloc |-> loc, yylval |-> val, oob |-> FALSE, r |-> FALSE]

\* a lexer whose window holds the file and one byte more: a refill of it
\* finds the end of the file and never a full window
fastd_lex_init_whole(f) == advance(calloc(f, Len(f.data) + 1, NUL))

\* the state after construction on the file of case c: e is the lexer, t
\* the lexer on the text with the comment replaced and w the lexer whose
\* window holds the whole input
Constructed(c, e, t, w) ==
    /\ file = e.file
    /\ lex = e.lex
    /\ yylloc = e.yylloc
    /\ yylval = e.yylval
    /\ ret = "none"
    /\ pulls = 0
    /\ hist = <<>>
    /\ twin = IF c.class = "comment"
              THEN [active |-> TRUE, e |-> t, hist |-> <<>>]
              ELSE [active |-> FALSE]
    /\ whole = IF c.class = "refill"
               THEN [active |-> TRUE, e |-> w, hist |-> <<>>]
               ELSE [active |-> FALSE]
    /\ oob = FALSE
    /\ tc = c

Init ==
    \E c \in Cases :
      \E fl \in (IF c.class \in {"openstring", "opencomment"} THEN BOOLEAN ELSE {FALSE}) :
        \E ob \in OobBytes(c.text) :
          Constructed(c,
                      fastd_lex_init([data |-> c.text, pos |-> 0, fails |-> fl,
                                      error |-> FALSE], ob),
                      fastd_lex_init([data |-> IF c.class = "comment" THEN c.alt
                                               ELSE <<>>,
                                      pos |-> 0, fails |-> fl, error |-> FALSE], ob),
                      fastd_lex_init_whole([data |-> c.text, pos |-> 0, fails |-> fl,
                                            error |-> FALSE]))

\* the caller's variables after a pull that has made e of the lexer
Returned(e) ==
    /\ file' = e.file
    /\ lex' = e.lex
    /\ yylloc' = e.yylloc
    /\ yylval' = e.yylval
    /\ ret' = e.r
    /\ oob' = e.oob
    /\ hist' = Record(hist, e)

TwinReturned(t) == [twin EXCEPT !.e = t, !.hist = Record(twin.hist, t)]

WholeReturned(w) == [whole EXCEPT !.e = w, !.hist = Record(whole.hist, w)]

Lex ==
    /\ pulls < MaxPulls
    /\ Returned(fastd_lex(Env(file, lex, yylloc, yylval)))
    /\ twin' = IF twin.active THEN TwinReturned(fastd_lex(twin.e)) ELSE twin
    /\ whole' = IF whole.active THEN WholeReturned(fastd_lex(whole.e)) ELSE whole
    /\ pulls' = pulls + 1
    /\ UNCHANGED tc

Next == Lex

Spec == Init /\ [][Next]_vars

(***************************************************************************)
(* Claims.                                                                 *)
(***************************************************************************)

Error(msg) == [member |-> "error", value |-> msg]

\* C1: of two word-like tokens written with nothing between them, the pull
\* for the first returns its token and the pull for the second returns
\* SyntaxError, a UINT or an ADDR4 in the first place included.
C1_AdjacentWordTokens ==
    tc.class = "pair" =>
        /\ (pulls = 1 => ret = tc.kind)
        /\ (pulls = 2 => ret = RET_ERROR /\ yylval = Error("syntax error"))

\* C2: on valid tokens and separators from a source that ends without a
\* read error, the pull that follows the last token returns 0, whatever the
\* kind of the last token and whether or not white space follows it.
C2_EndAfterLastToken ==
    (tc.class = "stream" /\ pulls = tc.at + 1) => ret = RET_END

\* C3: for every n in [0, 2^64-1], lexing the decimal text of n yields a
\* single UINT token whose value is n: the first pull returns UINT with
\* payload n over the whole text, and no later pull returns a token.
C3_UintRoundTrip ==
    tc.class = "uint" =>
        /\ (pulls = 1 => /\ ret = "TOK_UINT"
                         /\ yylval = [member |-> "uint64", value |-> tc.exp]
                         /\ lex.start = 0
                         /\ lex.tok_len = Len(tc.text))
        /\ (pulls > 1 => ~IsToken(ret))

C3_Witness ==
    /\ tc.class = "uint"
    /\ tc.exp = ULLONG_MAX
    /\ pulls = 1
    /\ ret = "TOK_UINT"
    /\ yylval.value = ULLONG_MAX

\* C4: for a byte sequence s of any length, longer than the window and than
\* the initial output buffer included, lexing the quoted, escaped s yields
\* exactly one STRING token whose decoded bytes are s, then end of input.
C4_StringRoundTrip ==
    tc.class = "string" =>
        /\ (pulls = 1 => /\ ret = "TOK_STRING"
                         /\ yylval = [member |-> "str", value |-> tc.exp])
        /\ (pulls = 2 => ret = RET_END)

C4_Witness ==
    /\ tc.class = "string"
    /\ Len(tc.exp) > BufSize
    /\ Len(tc.exp) > 2 * StrBufInit
    /\ pulls = 2
    /\ ret = RET_END
    /\ hist[1] = [ret |-> "TOK_STRING", val |-> tc.exp]

\* C5: every keyword of the table, lexed alone, yields the token the table
\* gives for it, any other word SyntaxError, and the table is strictly
\* sorted by strcmp of the keyword text.
C5_Keywords ==
    /\ \A i \in 1..(Len(keywords) - 1) :
          compare_keywords(keywords[i], keywords[i + 1]) < 0
    /\ (tc.class = "keyword" /\ pulls = 1) =>
          /\ ret = tc.kind
          /\ \E i \in 1..Len(keywords) :
                keywords[i] = [keyword |-> tc.text, token |-> ret]
    /\ (tc.class = "word" /\ pulls = 1) =>
          ret = RET_ERROR /\ yylval = Error("syntax error")

C5_Witness ==
    /\ tc.class = "keyword"
    /\ tc.text = keywords[Len(keywords)].keyword
    /\ pulls = 1
    /\ ret = keywords[Len(keywords)].token

\* C6: [t] yields ADDR6 with the 16 bytes of t for every valid IPv6 text t,
\* hexadecimal letters included, and InvalidAddress for a text that is no
\* IPv6 address.
C6_Ipv6Hex ==
    /\ (tc.class = "ipv6" /\ pulls = 1) =>
          ret = "TOK_ADDR6" /\ yylval = [member |-> "addr6", value |-> tc.exp]
    /\ (tc.class = "ipv6bad" /\ pulls = 1) =>
          ret = RET_ERROR /\ yylval = Error("invalid address")

\* C7: an IPv6 literal with no closing bracket fails with InvalidAddress,
\* after every prefix, and also when the source ends right after it.
C7_Ipv6Unclosed ==
    (tc.class = "ipv6open" /\ pulls = tc.at) =>
        ret = RET_ERROR /\ yylval = Error("invalid address")

\* C8: a digit-led run of digits and dots with a dot in it is lexed as one
\* IPv4 literal over the whole run: ADDR4 with the four bytes if the run is
\* a dotted quad, InvalidAddress if not.
C8_Ipv4Run ==
    (tc.class \in {"ipv4", "ipv4bad"} /\ pulls = 1) =>
        /\ SubSeq(lex.buffer, lex.start + 1, lex.start + lex.tok_len) = tc.alt
        /\ tc.class = "ipv4" =>
              ret = "TOK_ADDR4" /\ yylval = [member |-> "addr4", value |-> tc.exp]
        /\ tc.class = "ipv4bad" =>
              ret = RET_ERROR /\ yylval = Error("invalid address")

C8_Witness ==
    /\ tc.class = "ipv4"
    /\ tc.exp = <<255, 1, 255, 1>>
    /\ pulls = 1
    /\ ret = "TOK_ADDR4"
    /\ yylval.value = <<255, 1, 255, 1>>

\* C9: when the source ends inside a string literal or a block comment the
\* pull returns an error, IOError if the source has its error indicator set
\* and the unterminated-literal error if not.
C9_Unterminated ==
    (tc.class \in {"openstring", "opencomment"} /\ pulls = 1) =>
        /\ ret = RET_ERROR
        /\ yylval = Error(IF file.fails THEN "I/O error" ELSE tc.exp)

C9_Witness ==
    /\ tc.class = "openstring"
    /\ Len(tc.text) > BufSize
    /\ file.fails
    /\ pulls = 1
    /\ ret = RET_ERROR
    /\ yylval = Error("I/O error")

\* C10: a text and the text with a comment replaced (a line comment by a
\* newline, a block comment by a space) return the same tokens and
\* payloads, and a slash before a byte other than * and / is a SyntaxError.
C10_CommentsNoToken ==
    /\ twin.active => hist = twin.hist
    /\ (tc.class = "slash" /\ pulls = 1) =>
          ret = RET_ERROR /\ yylval = Error("syntax error")

\* C11: after a word-like token, one white-space byte, one punctuation
\* token or one comment is enough for the next word-like token to be scanned
\* normally: the pull for it returns its token and payload and no
\* SyntaxError.
C11_SeparatorSuffices ==
    (tc.class = "separated" /\ pulls = tc.at) =>
        /\ ret = tc.kind
        /\ HasPayload(ret) => yylval.value = tc.exp

C11_Witness ==
    /\ tc.class = "separated"
    /\ tc.text = B(<<"y", "e", "s", "/", "*", "*", "/", "n", "o">>)
    /\ pulls = 2
    /\ hist = <<[ret |-> "TOK_YES", val |-> <<>>], [ret |-> "TOK_NO", val |-> <<>>]>>
    /\ lex.needspace

\* C12: a run of digits without a dot whose value exceeds 2^64-1 is not
\* returned as a UINT: the pull returns InvalidInteger.
C12_OverflowIsInvalid ==
    (tc.class = "overflow" /\ pulls = 1) =>
        ret = RET_ERROR /\ yylval = Error("invalid integer constant")

\* the window [start, end) and the lookahead in it, in a buffer of BufSize
WindowInv(l) ==
    /\ l.start <= l.start + l.tok_len
    /\ l.start + l.tok_len <= l.end
    /\ l.end <= BufSize

\* C13: after construction and after every pull, error returns included,
\* start <= start + tok_len <= end <= capacity.
C13_WindowInvariant == WindowInv(lex)

C13_Witness ==
    /\ pulls >= 2
    /\ ret = RET_ERROR
    /\ file.pos > BufSize
    /\ lex.tok_len > 0
    /\ lex.start + lex.tok_len = lex.end

\* C14: on an input whose keyword, number and address tokens each fit the
\* window, the lexer returns the same token kinds and payloads as a lexer
\* whose window holds the whole input at once.
C14_RefillsTransparent ==
    whole.active => hist = whole.hist

\* C15: every returned token carries the span of its bytes: first_line and
\* first_column are the line and column of its first byte, last_line and
\* last_column those of its last byte; a pull that returns a token returns
\* the span of the token of the text it is the pull for.
C15_Locations ==
    (tc.class = "located" /\ IsToken(ret)) =>
        /\ 4 * pulls <= Len(tc.alt)
        /\ <<yylloc.first_line, yylloc.first_column,
             yylloc.last_line, yylloc.last_column>>
               = SubSeq(tc.alt, 4 * pulls - 3, 4 * pulls)

\* C16: in a string literal a backslash and a newline contribute nothing to
\* the value and a backslash and any other byte contribute that byte: the
\* literal is one STRING with the decoded bytes, and the end of input
\* follows it.
C16_Escapes ==
    tc.class = "escape" =>
        /\ (pulls = 1 => /\ ret = "TOK_STRING"
                         /\ yylval = [member |-> "str", value |-> tc.exp])
        /\ (pulls = 2 => ret = RET_END)

C16_Witness ==
    /\ tc.class = "escape"
    /\ tc.alt = <<Ord("\\"), LF, Ord("\\"), Ord("dq")>>
    /\ pulls = 2
    /\ hist = <<[ret |-> "TOK_STRING", val |-> <<Ord("dq")>>],
                [ret |-> RET_END, val |-> <<>>]>>

\* the bytes of the input the lexer has passed over
Passed == file.pos - (lex.end - (lex.start + lex.tok_len))

\* C17: no pull returns a token without passing over input, so that a
\* finite input gives finitely many tokens before 0 or -1.
C17_TokensConsumeInput ==
    [][IsToken(ret') => Passed' > Passed]_vars

\* C18: no pull reads or writes a byte of the buffer at an index that is
\* not inside the window [start, end).
C18_AccessInsideWindow == ~oob

\* the bytes of the source that are read and not consumed
Unread == SubSeq(file.data, file.pos - (lex.end - lex.start) + 1, file.pos)

\* C19: at every return of fastd_lex the bytes of the window [start, end)
\* are the bytes of the source.
C19_InputUnaltered ==
    SubSeq(lex.buffer, lex.start + 1, lex.end) = Unread

\* C20: fastd_lex returns 0 only when the window is empty and the source
\* has no more bytes to deliver.
C20_EndWhenConsumed ==
    ret = RET_END => (lex.start = lex.end /\ file.pos = Len(file.data))

====
